---------------------------- MODULE Spec2Model ----------------------------
(***************************************************************************)
(* A model of the Java error analyzer (mcp_tools/java_analyzer):           *)
(*   - JavaAnalyzer.parse_stacktrace        (code_parser.py)               *)
(*   - JavaAnalyzer.process_java_files      (code_parser.py)               *)
(*   - JavaAnalyzer.find_related_methods    (code_parser.py)               *)
(*   - JavaAnalysisTool._weight_methods     (mcp_adapter.py)               *)
(*   - JavaAnalysisTool.analyze_error       (mcp_adapter.py)               *)
(*   - JavaAnalysisTool.build_call_graph    (mcp_adapter.py)               *)
(*   - JavaAnalyzer.find_exception_handlers, has_exception_handling,       *)
(*     check_null_handling and build_call_graph (code_parser.py)           *)
(*                                                                         *)
(* Text is modelled as a sequence of tokens.  A token is a maximal run of  *)
(* word characters (\w), a single "." "(" ")" ":" "$", a single space " "  *)
(* or a line break "\n".  The regular expressions of the code are applied  *)
(* to the token sequence the way re applies them to the characters.       *)
(***************************************************************************)
EXTENDS Integers, Sequences, FiniteSets, TLC

VARIABLES
    stacktrace,      \* parse_stacktrace: the text given (a token sequence)
    trace_lines,     \* ghost: the lines the text was written from
    exception_info,  \* parse_stacktrace: the dictionary returned, or None
    class_map,       \* JavaAnalyzer.class_map: class name -> file path
    method_map,      \* JavaAnalyzer.method_map: method key -> descriptor
    call_graph,      \* JavaAnalyzer.call_graph: method key -> set of callees
    index_calls,     \* ghost: the process_java_files calls made so far
    s_pc,            \* find_related_methods: "idle", "searching", "returned"
    s_key,           \* find_related_methods: method_key
    s_depth,         \* find_related_methods: depth
    visited,         \* find_related_methods: visited
    related,         \* find_related_methods: related
    stack,           \* find_related_methods: the active calls of dfs
    visits,          \* ghost: how often each key was added to visited
    s_index,         \* ghost: index_calls when the search began
    prev_search,     \* ghost: the search that returned before this one, or None
    file_commits,    \* _weight_methods: commits (file path -> last commit)
    exception_handling, \* _weight_methods: exception_handling (key -> flags)
    weighted,        \* _weight_methods: the dictionary returned, or None
    pc,              \* analyze_error: the step the request is at
    payload,         \* analyze_error: payload
    result,          \* analyze_error: the dictionary returned, or None
    requests,        \* ghost: the analyze_error calls made so far
    repo_path,       \* analyze_error: repo_path (the clone), or None
    java_files,      \* analyze_error: java_files
    exception_handlers, \* analyze_error: exception_handlers
    clones,          \* ghost: the clone_repo calls of the request
    maps0,           \* ghost: the analyzer's maps when the request began
    failure,         \* ghost: what was raised during the request, or None
    endpoint,        \* the endpoint of the request: its method name, or ""
    h_class,         \* find_exception_handlers: class_name
    h_exception,     \* find_exception_handlers: exception_type
    h_result,        \* find_exception_handlers: what it returned or raised
    i_files,         \* ghost: the list the last process_java_files was given
    i_maps,          \* ghost: the maps before the last process_java_files
    java_code,       \* the text scans: java_code (a token sequence)
    code_pieces,     \* ghost: the pieces java_code was written from
    scan             \* the text scans: what the two returned, or None

\* Python's None, and a failed re match.
None == [none |-> TRUE]

IsNone(v) == "none" \in DOMAIN v

---------------------------------------------------------------------------
(* Bounds of the model.                                                    *)

MaxLines == 3

\* The process_java_files calls made on one analyzer.
MaxIndexCalls == 2

\* The greatest depth find_related_methods is called with.
MaxDepth == 2

---------------------------------------------------------------------------
(* Tokens.                                                                 *)

NL == "\n"
SP == " "

\* Tokens matched by \d+ as a whole, with their decimal digits.
DigitsOf ==
    [t \in {"42", "7", "2"} |->
        CASE t = "42" -> <<4, 2>>
          [] t = "7"  -> <<7>>
          [] t = "2"  -> <<2>>]

DigitToks == DOMAIN DigitsOf

\* Tokens matched by \w+ as a whole.
WordToks ==
    { "at", "format", "more", "bad", "null", "Native", "Method",
      "java", "lang", "com", "R", "A", "r", "a", "run",
      "NullPointerException", "IllegalStateException" } \cup DigitToks

\* Tokens matched by [\w\.]+ .
WordDotToks == WordToks \cup {"."}

\* Tokens matched by \s .
SpaceToks == {SP, NL}

\* Words whose last two characters are "at": the literal `at' of the frame
\* pattern matches the end of any of them.
EndsWithAt == {"at", "format"}

\* Words that end with Exception, Error or Throwable (and are longer).
ExceptionWords == {"NullPointerException", "IllegalStateException"}

RECURSIVE Join(_)
\* The text of a token sequence (str.join of the matched characters).
Join(s) == IF s = <<>> THEN "" ELSE Head(s) \o Join(Tail(s))

RECURSIVE IntOfDigits(_, _)
IntOfDigits(ds, acc) ==
    IF ds = <<>> THEN acc ELSE IntOfDigits(Tail(ds), 10 * acc + Head(ds))

\* int(line_number) of a token matched by \d+ .
IntOf(tok) == IntOfDigits(DigitsOf[tok], 0)

RECURSIVE RunEnd(_, _, _)
\* The index of the last token of the longest run of tokens of S that
\* starts at index i of t; i - 1 when t[i] is not in S.
RunEnd(t, i, S) ==
    IF i <= Len(t) /\ t[i] \in S THEN RunEnd(t, i + 1, S) ELSE i - 1

Tok(t, i) == IF i >= 1 /\ i <= Len(t) THEN t[i] ELSE ""

SubToks(t, i, j) == IF j < i THEN <<>> ELSE SubSeq(t, i, j)

---------------------------------------------------------------------------
(* parse_stacktrace: the frame pattern                                     *)
(*     at\s+([\w\.]+)\.(\w+)\(([\w\.]+):(\d+)\)                            *)

\* A match of the frame pattern that starts at token i (the end of token i
\* is the literal "at"), or None.  end is the index of the closing ")".
FrameMatchAt(t, i) ==
    LET s  == RunEnd(t, i + 1, SpaceToks)        \* \s+
        k  == RunEnd(t, s + 1, WordDotToks)      \* ([\w\.]+)\.(\w+)
        m  == RunEnd(t, k + 2, WordDotToks)      \* ([\w\.]+)
    IN  IF /\ Tok(t, i) \in EndsWithAt
           /\ s >= i + 1
           /\ k >= s + 3
           /\ t[k] \in WordToks
           /\ t[k - 1] = "."
           /\ Tok(t, k + 1) = "("
           /\ m >= k + 2
           /\ Tok(t, m + 1) = ":"
           /\ Tok(t, m + 2) \in DigitToks
           /\ Tok(t, m + 3) = ")"
        THEN [ end    |-> m + 3,
               groups |-> << Join(SubToks(t, s + 1, k - 2)), t[k],
                             Join(SubToks(t, k + 2, m)), t[m + 2] >> ]
        ELSE None

RECURSIVE FindFirstFrame(_, _)
\* A variant of FindAllFrames that stops at the first match (re.search).
FindFirstFrame(t, i) ==
    IF i > Len(t) THEN <<>>
    ELSE LET mt == FrameMatchAt(t, i)
         IN  IF IsNone(mt) THEN FindFirstFrame(t, i + 1) ELSE <<mt.groups>>

RECURSIVE FindAllFrames(_, _)
\* re.findall(frame_pattern, stacktrace): the groups of the matches, from
\* left to right, none overlapping.
FindAllFrames(t, i) ==
    IF i > Len(t) THEN <<>>
    ELSE LET mt == FrameMatchAt(t, i)
         IN  IF IsNone(mt) THEN FindAllFrames(t, i + 1)
             ELSE <<mt.groups>> \o FindAllFrames(t, mt.end + 1)

\* The dictionary appended for one match.
FrameOf(g) ==
    [ class_name  |-> g[1],
      method_name |-> g[2],
      file_name   |-> g[3],
      line_number |-> IntOf(g[4]) ]

---------------------------------------------------------------------------
(* parse_stacktrace: the exception patterns (re.MULTILINE)                 *)
(*     ^([\w\.]+(?:Exception|Error|Throwable)): (.+)                       *)
(*     ^([\w\.]+(?:Exception|Error|Throwable))                             *)

LineStart(t, i) == i = 1 \/ (i > 1 /\ i <= Len(t) + 1 /\ t[i - 1] = NL)

LineEnd(t, i) == RunEnd(t, i, (WordDotToks \cup {SP, "(", ")", ":", "$"}))

RECURSIVE LastExceptionWord(_, _, _)
\* The greatest index in i..k of a token of ExceptionWords, or i - 1.
LastExceptionWord(t, i, k) ==
    IF k < i THEN i - 1
    ELSE IF t[k] \in ExceptionWords THEN k
    ELSE LastExceptionWord(t, i, k - 1)

\* The first pattern at line start i: [type, message], or None.
ExceptionMatchAt(t, i) ==
    LET k == RunEnd(t, i, WordDotToks)
        e == LineEnd(t, k + 3)
    IN  IF /\ LineStart(t, i)
           /\ k >= i
           /\ t[k] \in ExceptionWords
           /\ Tok(t, k + 1) = ":"
           /\ Tok(t, k + 2) = SP
           /\ e >= k + 3
        THEN [ type    |-> Join(SubToks(t, i, k)),
               message |-> Join(SubToks(t, k + 3, e)) ]
        ELSE None

\* The second pattern at line start i: the type, or None.
SimpleMatchAt(t, i) ==
    LET k == RunEnd(t, i, WordDotToks)
        x == LastExceptionWord(t, i, k)
    IN  IF LineStart(t, i) /\ x >= i
        THEN [ type |-> Join(SubToks(t, i, x)) ]
        ELSE None

RECURSIVE SearchException(_, _)
SearchException(t, i) ==
    IF i > Len(t) THEN None
    ELSE IF ~IsNone(ExceptionMatchAt(t, i)) THEN ExceptionMatchAt(t, i)
    ELSE SearchException(t, i + 1)

RECURSIVE SearchSimple(_, _)
SearchSimple(t, i) ==
    IF i > Len(t) THEN None
    ELSE IF ~IsNone(SimpleMatchAt(t, i)) THEN SimpleMatchAt(t, i)
    ELSE SearchSimple(t, i + 1)

RECURSIVE MapFrames(_)
MapFrames(gs) ==
    IF gs = <<>> THEN <<>> ELSE <<FrameOf(Head(gs))>> \o MapFrames(Tail(gs))

\* JavaAnalyzer.parse_stacktrace
parse_stacktrace(t) ==
    LET em == SearchException(t, 1)
        sm == SearchSimple(t, 1)
    IN  [ exception_type |-> IF ~IsNone(em) THEN em.type
                             ELSE IF ~IsNone(sm) THEN sm.type ELSE "",
          message        |-> IF ~IsNone(em) THEN em.message ELSE "",
          frames         |-> MapFrames(FindAllFrames(t, 1)) ]

---------------------------------------------------------------------------
(* Stack-trace texts: the lines a Java runtime prints.                     *)

\* A frame line "    at <class>.<method>(<file>:<line>)" written from its
\* four fields (StackTraceElement.toString).
FrameLine(cls, mth, file, ln) ==
    [ toks  |-> <<SP, SP, "at", SP>> \o cls \o <<".", mth, "(">> \o file
                  \o <<":", ln, ")">>,
      frame |-> [ class_name  |-> Join(cls),
                  method_name |-> mth,
                  file_name   |-> Join(file),
                  line_number |-> IntOf(ln) ] ]

\* Any other line: it carries no frame.
OtherLine(toks) == [ toks |-> toks, frame |-> None ]

WellFormedLines ==
    { FrameLine(<<"R">>, "r", <<"R", ".", "java">>, "42"),
      FrameLine(<<"com", ".", "A">>, "a", <<"A", ".", "java">>, "7") }

OtherLines ==
    { \* java.lang.NullPointerException: null
      OtherLine(<<"java", ".", "lang", ".", "NullPointerException", ":", SP,
                  "null">>),
      \* java.lang.IllegalStateException: bad format
      OtherLine(<<"java", ".", "lang", ".", "IllegalStateException", ":", SP,
                  "bad", SP, "format">>),
      \*   at R.r(Native Method)
      OtherLine(<<SP, SP, "at", SP, "R", ".", "r", "(", "Native", SP,
                  "Method", ")">>),
      \*   at R.r
      OtherLine(<<SP, SP, "at", SP, "R", ".", "r">>),
      \*   at R$2.run(R.java:7)      ($ is no word character)
      OtherLine(<<SP, SP, "at", SP, "R", "$", "2", ".", "run", "(", "R", ".",
                  "java", ":", "7", ")">>),
      \*   ... 2 more
      OtherLine(<<SP, SP, ".", ".", ".", SP, "2", SP, "more">>) }

LineCatalogue == WellFormedLines \cup OtherLines

RECURSIVE TextOf(_)
\* The text of a sequence of lines, each ended by a line break but the last.
TextOf(ls) ==
    IF ls = <<>> THEN <<>>
    ELSE IF Len(ls) = 1 THEN ls[1].toks
    ELSE ls[1].toks \o <<NL>> \o TextOf(Tail(ls))

RECURSIVE FramesWritten(_)
\* The frames of the well-formed frame lines of ls, from top to bottom.
FramesWritten(ls) ==
    IF ls = <<>> THEN <<>>
    ELSE (IF IsNone(Head(ls).frame) THEN <<>> ELSE <<Head(ls).frame>>)
         \o FramesWritten(Tail(ls))

Traces == UNION { [1..n -> LineCatalogue] : n \in 0..MaxLines }

---------------------------------------------------------------------------
(* Python dictionaries: the keys in insertion order, and the values.       *)

EmptyDict == [keys |-> <<>>, val |-> <<>>]

Has(d, k) == k \in DOMAIN d.val

\* d[k] = v
DictSet(d, k, v) ==
    [ keys |-> IF Has(d, k) THEN d.keys ELSE Append(d.keys, k),
      val  |-> (k :> v) @@ d.val ]

---------------------------------------------------------------------------
(* Java source files, as javalang parses them.                             *)

Call(q, m) == [qualifier |-> q, member |-> m]

\* A method declaration: its name, the method invocations of its body in
\* the order the walk of the body meets them, and what the text scans find
\* in its code: eh (has_exception_handling), nc (check_null_handling) and
\* the exception types of the catch clauses written in its text; and of
\* str(method_decl.body): the exception names that occur in it and whether
\* the word catch occurs in it (as written, what the catch clauses give).
Method(n, calls, eh, nc, catches) ==
    [ name |-> n, calls |-> calls, eh |-> eh, nc |-> nc, catches |-> catches,
      body_names |-> catches, body_catch |-> catches # {} ]

\* A type declaration of a compilation unit.
Class(n, methods) == [kind |-> "class", name |-> n, methods |-> methods]
Interface(n, methods) == [kind |-> "interface", name |-> n, methods |-> methods]

\* A file: whether open() succeeds, whether it decodes as UTF-8, whether
\* javalang.parse.parse succeeds, and the tree it returns.
JavaFile(p, pkg, types) ==
    [ path |-> p, readable |-> TRUE, utf8 |-> TRUE, parses |-> TRUE,
      package |-> pkg, types |-> types ]

\* class R { r() { A.a(); B.b(); helper(); } }
FileR ==
    JavaFile("src/R.java", "",
        << Class("R", << Method("r", << Call("A", "a"), Call("B", "b"),
                                        Call("", "helper") >>,
                                TRUE, TRUE, {"NullPointerException"}) >>) >>)

\* class A { a() { B.b(); } }
FileA ==
    JavaFile("src/A.java", "",
        << Class("A", << Method("a", << Call("B", "b") >>,
                                FALSE, FALSE, {}) >>) >>)

\* class B { b() { C.c(); } }
FileB ==
    JavaFile("src/B.java", "",
        << Class("B", << Method("b", << Call("C", "c") >>,
                                TRUE, FALSE, {"IllegalStateException"}) >>) >>)

\* interface I { i(); }  class C { c() { log.info(); log.info(); } }
FileC ==
    JavaFile("src/C.java", "",
        << Interface("I", << Method("i", << >>, FALSE, FALSE, {}) >>),
           Class("C", << Method("c", << Call("log", "info"),
                                        Call("log", "info") >>,
                                FALSE, TRUE, {}) >>) >>)

\* Another file that declares class B: class B { b() { A.a(); } }
FileB2 ==
    JavaFile("alt/B.java", "",
        << Class("B", << Method("b", << Call("A", "a") >>,
                                FALSE, FALSE, {}) >>) >>)

\* Another file that declares class A, without a(): class A { a2() { } }
FileA2 ==
    JavaFile("alt/A.java", "",
        << Class("A", << Method("a2", << >>, FALSE, FALSE, {}) >>) >>)

\* package com; class A { a() { R.r(); } }   (latin-1 encoded)
FileComA ==
    [ JavaFile("src/com/A.java", "com",
        << Class("A", << Method("a", << Call("R", "r") >>,
                                TRUE, TRUE, {"NullPointerException"}) >>) >>)
      EXCEPT !.utf8 = FALSE ]

\* class U { u1() { B.b(); B.b(); }  u2() { B.b(); }  u3() { B.b(); }
\*           u4() { U.u5(); U.u5(); }  u5() { } }
FileU ==
    JavaFile("src/U.java", "",
        << Class("U", << Method("u1", << Call("B", "b"), Call("B", "b") >>,
                                FALSE, FALSE, {}),
                         Method("u2", << Call("B", "b") >>, FALSE, TRUE, {}),
                         Method("u3", << Call("B", "b") >>, FALSE, FALSE, {}),
                         Method("u4", << Call("U", "u5"), Call("U", "u5") >>,
                                TRUE, FALSE, {}),
                         Method("u5", << >>, FALSE, TRUE, {}) >>) >>)

\* class G { g() { try { } catch (IOException e) { } } }
\* class H { h1() { try { throw new NullPointerException(); }
\*                  catch (IllegalStateException e) { throw new IOException(); } }
\*           h2() { throw new IllegalStateException(); }
\*           h3() { // catch (IllegalStateException e)
\*                }
\*           h4() { try { } catch (IllegalStateException e) { } } }
FileH ==
    JavaFile("src/H.java", "",
        << Class("G", << Method("g", << >>, TRUE, FALSE, {"IOException"}) >>),
           Class("H",
             << [ Method("h1", << >>, TRUE, FALSE, {"IllegalStateException"})
                    EXCEPT !.body_names = {"NullPointerException",
                                           "IllegalStateException", "IOException"} ],
                [ Method("h2", << >>, FALSE, FALSE, {})
                    EXCEPT !.body_names = {"IllegalStateException"} ],
                [ Method("h3", << >>, FALSE, FALSE, {"IllegalStateException"})
                    EXCEPT !.body_names = {}, !.body_catch = FALSE ],
                Method("h4", << >>, TRUE, FALSE, {"IllegalStateException"}) >>) >>)

\* A file javalang cannot parse.
FileBad ==
    [ JavaFile("src/Bad.java", "", << >>) EXCEPT !.parses = FALSE ]

\* A file that cannot be opened.
FileGone ==
    [ FileA EXCEPT !.path = "src/Gone.java", !.readable = FALSE ]

\* The file lists given to process_java_files.
FileLists ==
    { << >>,
      << FileBad, FileGone >>,
      << FileR, FileA, FileB, FileC >>,
      << FileA, FileB2 >>,
      << FileC, FileBad, FileComA >>,
      << FileB2, FileR >> }

---------------------------------------------------------------------------
(* JavaAnalyzer: the indexer.                                              *)

\* The three maps of a JavaAnalyzer.
Maps(cm, mm, cg) == [class_map |-> cm, method_map |-> mm, call_graph |-> cg]

\* JavaAnalyzer.__init__
EmptyMaps == Maps(EmptyDict, EmptyDict, EmptyDict)

MethodKey(class_name, method_name) == class_name \o "." \o method_name

\* The callee keys _process_method_calls adds: qualifier.member of every
\* invocation that has a qualifier.
CalleeKeys(calls) ==
    { MethodKey(calls[i].qualifier, calls[i].member) :
        i \in { j \in 1..Len(calls) : calls[j].qualifier # "" } }

\* JavaAnalyzer._process_method_calls
process_method_calls(cg, class_name, method_decl) ==
    LET method_key == MethodKey(class_name, method_decl.name)
        cg1 == IF Has(cg, method_key) THEN cg ELSE DictSet(cg, method_key, {})
    IN  DictSet(cg1, method_key,
                cg1.val[method_key] \cup CalleeKeys(method_decl.calls))

RECURSIVE ProcessMethods(_, _, _, _)
\* _process_java_content: for method_decl in type_decl.methods
ProcessMethods(m, full_class_name, file_path, methods) ==
    IF methods = <<>> THEN m
    ELSE LET md  == Head(methods)
             key == MethodKey(full_class_name, md.name)
             m1  == Maps(m.class_map,
                         DictSet(m.method_map, key,
                                 [ class_name  |-> full_class_name,
                                   method_name |-> md.name,
                                   file_path   |-> file_path ]),
                         process_method_calls(m.call_graph, full_class_name, md))
         IN  ProcessMethods(m1, full_class_name, file_path, Tail(methods))

RECURSIVE ProcessTypes(_, _, _)
\* _process_java_content: for type_decl in tree.types
ProcessTypes(m, file, types) ==
    IF types = <<>> THEN m
    ELSE LET td == Head(types)
             full_class_name ==
                 IF file.package # "" THEN file.package \o "." \o td.name
                 ELSE td.name
             m1 == Maps(DictSet(m.class_map, full_class_name, file.path),
                        m.method_map, m.call_graph)
         IN  IF td.kind = "class"
             THEN ProcessTypes(
                      ProcessMethods(m1, full_class_name, file.path, td.methods),
                      file, Tail(types))
             ELSE ProcessTypes(m, file, Tail(types))

\* JavaAnalyzer._process_java_content: a parse error is logged, the maps
\* stay as they are.
process_java_content(m, file) ==
    IF file.parses THEN ProcessTypes(m, file, file.types) ELSE m

RECURSIVE process_until_failure(_, _)
\* A variant of process_java_files that a file javalang cannot parse ends.
process_until_failure(m, file_paths) ==
    IF file_paths = <<>> THEN m
    ELSE LET f == Head(file_paths)
         IN  IF f.readable /\ ~f.parses THEN m
             ELSE process_until_failure(
                      IF f.readable THEN process_java_content(m, f) ELSE m,
                      Tail(file_paths))

RECURSIVE process_java_files(_, _)
\* JavaAnalyzer.process_java_files: a file that cannot be opened is logged
\* and skipped; a file that is not UTF-8 is read again as latin-1.
process_java_files(m, file_paths) ==
    IF file_paths = <<>> THEN m
    ELSE LET f == Head(file_paths)
         IN  process_java_files(
                 IF f.readable THEN process_java_content(m, f) ELSE m,
                 Tail(file_paths))

---------------------------------------------------------------------------
(* JavaAnalysisTool._weight_methods                                        *)

\* datetime.datetime.now(), in hours.
NowHours == 100000

HoursPerDay == 24

\* A commit date string: ISO text without an offset ("naive"), with one
\* ("aware": what commit.authored_datetime.isoformat() gives), or text that
\* is no ISO date ("garbage"); t is the instant it names, in hours.
Date(iso, age_hours) == [iso |-> iso, t |-> NowHours - age_hours]

\* A last-commit dictionary (its keys, and the value under "date"): one
\* with a date, one without, and the empty one.
Commit(date) == [keys |-> {"hash", "date"}, date |-> date]
CommitNoDate == [keys |-> {"hash"}, date |-> None]
NoCommit == [keys |-> {}, date |-> None]

\* reference_count: for every callee, the number of call_graph entries
\* whose set holds it.
ReferenceCount(cg) ==
    [ callee \in UNION { cg.val[k] : k \in DOMAIN cg.val } |->
        Cardinality({ k \in DOMAIN cg.val : callee \in cg.val[k] }) ]

\* The weight added for the commit record of the file.  fromisoformat
\* raises on text that is no ISO date; now - commit_date raises TypeError
\* when commit_date carries an offset (now is naive); both are caught.
RecencyWeight(commits, file_path) ==
    IF file_path \in DOMAIN commits /\ commits[file_path].keys # {}
    THEN IF "date" \in commits[file_path].keys
         THEN LET d == commits[file_path].date
                  days_diff == (NowHours - d.t) \div HoursPerDay
              IN  IF d.iso # "naive" THEN 1
                  ELSE IF days_diff <= 30 THEN 3
                  ELSE IF days_diff <= 90 THEN 2
                  ELSE 1
         ELSE 0
    ELSE 0

\* A variant of HandlingWeight that gives the null-check bonus only on top
\* of exception handling.
HandlingNullOnTop(flags, key) ==
    IF key \in DOMAIN flags
    THEN IF flags[key].has_exception_handling
         THEN 3 + (IF flags[key].has_null_check THEN 2 ELSE 0)
         ELSE 0
    ELSE 0

\* The weight added for the flags of the method.
HandlingWeight(flags, key) ==
    IF key \in DOMAIN flags
    THEN (IF flags[key].has_exception_handling THEN 3 ELSE 0)
         + (IF flags[key].has_null_check THEN 2 ELSE 0)
    ELSE 0

\* A variant of FanInWeight whose highest step begins above 5.
FanInAboveFive(reference_count, key) ==
    IF key \in DOMAIN reference_count
    THEN LET count == reference_count[key]
         IN  IF count > 5 THEN 3 ELSE IF count >= 2 THEN 2 ELSE 1
    ELSE 0

\* The weight added for the references to the method.
FanInWeight(reference_count, key) ==
    IF key \in DOMAIN reference_count
    THEN LET count == reference_count[key]
         IN  IF count >= 5 THEN 3 ELSE IF count >= 2 THEN 2 ELSE 1
    ELSE 0

MethodWeight(cg, commits, flags, key, method_info) ==
    RecencyWeight(commits, method_info.file_path)
    + HandlingWeight(flags, key)
    + FanInWeight(ReferenceCount(cg), key)

\* An unstable variant of InsertByWeight: x goes before its equals.
InsertBeforeEquals(sorted, x) ==
    LET n == Cardinality({ i \in 1..Len(sorted) : sorted[i].weight > x.weight })
    IN  SubSeq(sorted, 1, n) \o <<x>> \o SubSeq(sorted, n + 1, Len(sorted))

\* x put into a sequence sorted by descending weight, after every item
\* that weighs as much or more.
InsertByWeight(sorted, x) ==
    LET n == Cardinality({ i \in 1..Len(sorted) : sorted[i].weight >= x.weight })
    IN  SubSeq(sorted, 1, n) \o <<x>> \o SubSeq(sorted, n + 1, Len(sorted))

RECURSIVE SortedByWeight(_, _)
\* sorted(weighted.items(), key=lambda x: x[1][1], reverse=True): a stable
\* sort; items of equal weight keep the order they have in items.
SortedByWeight(items, acc) ==
    IF items = <<>> THEN acc
    ELSE SortedByWeight(Tail(items), InsertByWeight(acc, Head(items)))

\* JavaAnalysisTool._weight_methods: the items of the dictionary returned,
\* [key, info, weight], in its order.
weight_methods(cg, methods, commits, flags) ==
    SortedByWeight(
        [ i \in 1..Len(methods.keys) |->
            [ key    |-> methods.keys[i],
              info   |-> methods.val[methods.keys[i]],
              weight |-> MethodWeight(cg, commits, flags, methods.keys[i],
                                      methods.val[methods.keys[i]]) ] ],
        << >>)

---------------------------------------------------------------------------
(* JavaAnalyzer.find_exception_handlers                                    *)

\* Every file of the catalogue, by its path (what open(file_path) reads).
AllFiles ==
    { FileR, FileA, FileB, FileC, FileB2, FileA2, FileComA, FileU, FileH,
      FileBad, FileGone }

FileAt(path) == CHOOSE f \in AllFiles : f.path = path

\* name.split(".")[-1] of the class names and exception types of the model.
LastSegment(name) ==
    CASE name = "com.A" -> "A"
      [] name = "java.lang.NullPointerException" -> "NullPointerException"
      [] name = "java.lang.IllegalStateException" -> "IllegalStateException"
      [] OTHER -> name

RECURSIVE AnyCatch(_, _)
\* re.findall(catch_pattern, content) is not empty: some catch clause of
\* the file names exception_type.
AnyCatch(types, exception_type) ==
    IF types = <<>> THEN FALSE
    ELSE \/ \E i \in 1..Len(Head(types).methods) :
              exception_type \in Head(types).methods[i].catches
         \/ AnyCatch(Tail(types), exception_type)

RECURSIVE HandlersOfMethods(_, _, _, _)
\* exception_type in method_body and 'catch' in method_body (the empty
\* string is in every text).
HandlersOfMethods(methods, class_name, file_path, exception_type) ==
    IF methods = <<>> THEN <<>>
    ELSE (IF /\ \/ exception_type = ""
                \/ exception_type \in Head(methods).body_names
             /\ Head(methods).body_catch
          THEN << [ class_name  |-> class_name,
                    method_name |-> Head(methods).name,
                    file_path   |-> file_path ] >>
          ELSE <<>>)
         \o HandlersOfMethods(Tail(methods), class_name, file_path,
                              exception_type)

RECURSIVE HandlersOfTypes(_, _, _, _)
HandlersOfTypes(types, class_name, file_path, exception_type) ==
    IF types = <<>> THEN <<>>
    ELSE (IF /\ Head(types).kind = "class"
             /\ Head(types).name = LastSegment(class_name)
          THEN HandlersOfMethods(Head(types).methods, class_name, file_path,
                                 exception_type)
          ELSE <<>>)
         \o HandlersOfTypes(Tail(types), class_name, file_path, exception_type)

\* A variant of ClassKnown that takes every class for indexed.
ClassAlwaysKnown(cm, class_name) == TRUE

\* class_name in self.class_map
ClassKnown(cm, class_name) == Has(cm, class_name)

\* self.class_map[class_name] raises KeyError when the lookup is reached
\* with a class the map does not have.
find_exception_handlers_raises(cm, class_name) ==
    ClassKnown(cm, class_name) /\ ~Has(cm, class_name)

\* A variant of PreCheck that always finds a catch clause.
PreCheckAlways(file, exception_type) == file.readable

\* The file is read and re.findall(catch_pattern, content) is not empty
\* (with an empty exception_type the pattern matches no catch clause).
PreCheck(file, exception_type) ==
    /\ file.readable
    /\ exception_type # ""
    /\ AnyCatch(file.types, exception_type)

\* JavaAnalyzer.find_exception_handlers
find_exception_handlers(cm, class_name, exception_type) ==
    IF ~ClassKnown(cm, class_name) THEN <<>>
    ELSE LET file == FileAt(cm.val[class_name])
         IN  IF PreCheck(file, exception_type) /\ file.parses
             THEN HandlersOfTypes(file.types, class_name, file.path,
                                  exception_type)
             ELSE <<>>

---------------------------------------------------------------------------
(* JavaAnalyzer.find_related_methods: the recursion dfs, one call a step.  *)
(* An active call of dfs is [key, depth, todo, ci]: todo are the callees   *)
(* the first loop has still to take (a Python set: any order), ci is the   *)
(* position of the second loop in call_graph.items().                      *)

\* The default of the depth parameter.
DefaultDepth == 2

Frame(k, d) ==
    [ key |-> k, depth |-> d,
      todo |-> IF Has(call_graph, k) THEN call_graph.val[k] ELSE {},
      ci |-> 1 ]

\* A variant of DfsReturnsAtOnce that passes the depth by one.
DfsReturnsLate(k, d) == d > s_depth + 1 \/ k \in visited

\* A variant of DfsReturnsAtOnce without the visited check.
DfsDepthOnly(k, d) == d > s_depth

\* dfs returns at once: the depth is passed or the key was visited.
DfsReturnsAtOnce(k, d) == d > s_depth \/ k \in visited

\* A call dfs(k, d) made with the active calls st.
DfsCall(k, d, st) ==
    IF DfsReturnsAtOnce(k, d)
    THEN /\ stack' = st
         /\ UNCHANGED <<visited, related, visits>>
    ELSE /\ visited' = visited \cup {k}
         /\ visits' = (k :> (IF k \in DOMAIN visits THEN visits[k] + 1 ELSE 1))
                        @@ visits
         /\ related' = IF Has(method_map, k)
                        THEN DictSet(related, k, method_map.val[k])
                        ELSE related
         /\ stack' = Append(st, Frame(k, d))

Top == stack[Len(stack)]

ReplaceTop(f) == [stack EXCEPT ![Len(stack)] = f]

pvars == <<stacktrace, trace_lines, exception_info>>
avars == <<class_map, method_map, call_graph, index_calls>>
svars == <<s_pc, s_key, s_depth, visited, related, stack, visits,
           s_index, prev_search>>
rvars == <<file_commits, exception_handling, weighted>>
cvars == <<h_class, h_exception, h_result, i_files, i_maps, java_code,
          code_pieces, scan>>
tvars == <<pc, payload, result, requests, repo_path, java_files,
           exception_handlers, clones, maps0, failure, endpoint,
           cvars>>
vars == <<pvars, avars, svars, rvars, tvars>>

\* find_related_methods(class_name, method_name, depth): the first call,
\* dfs(method_key, 0), with nothing visited (depth is not negative).
FindRelatedMethods(class_name, method_name, depth) ==
    /\ s_pc' = "searching"
    /\ s_key' = MethodKey(class_name, method_name)
    /\ s_depth' = depth
    /\ visited' = {s_key'}
    /\ visits' = (s_key' :> 1)
    /\ related' = IF Has(method_map, s_key')
                   THEN DictSet(EmptyDict, s_key', method_map.val[s_key'])
                   ELSE EmptyDict
    /\ stack' = << Frame(s_key', 0) >>
    /\ s_index' = index_calls

\* for called in self.call_graph[current_key]: dfs(called, current_depth + 1)
DfsCallee ==
    /\ s_pc = "searching"
    /\ stack # <<>>
    /\ Top.todo # {}
    /\ \E called \in Top.todo :
          DfsCall(called, Top.depth + 1,
                  ReplaceTop([Top EXCEPT !.todo = @ \ {called}]))
    /\ UNCHANGED <<s_pc, s_key, s_depth, s_index, prev_search>>
    /\ UNCHANGED <<pvars, avars, rvars, tvars>>

\* for caller, callees in self.call_graph.items():
\*     if current_key in callees: dfs(caller, current_depth + 1)
DfsCaller ==
    /\ s_pc = "searching"
    /\ stack # <<>>
    /\ Top.todo = {}
    /\ Top.ci <= Len(call_graph.keys)
    /\ LET caller == call_graph.keys[Top.ci]
           st == ReplaceTop([Top EXCEPT !.ci = @ + 1])
       IN  IF Top.key \in call_graph.val[caller]
           THEN DfsCall(caller, Top.depth + 1, st)
           ELSE stack' = st /\ UNCHANGED <<visited, related, visits>>
    /\ UNCHANGED <<s_pc, s_key, s_depth, s_index, prev_search>>
    /\ UNCHANGED <<pvars, avars, rvars, tvars>>

\* The end of a call of dfs; the end of the first one is the return of
\* find_related_methods.
DfsReturn ==
    /\ s_pc = "searching"
    /\ stack # <<>>
    /\ Top.todo = {}
    /\ Top.ci > Len(call_graph.keys)
    /\ stack' = SubSeq(stack, 1, Len(stack) - 1)
    /\ s_pc' = IF Len(stack) = 1 THEN "returned" ELSE s_pc
    /\ UNCHANGED <<s_key, s_depth, visited, related, visits, s_index,
                   prev_search>>
    /\ UNCHANGED <<pvars, avars, rvars, tvars>>

---------------------------------------------------------------------------
(* The states before anything is called.                                   *)

ParserIdle ==
    /\ trace_lines = <<>>
    /\ stacktrace = <<>>
    /\ exception_info = None

\* JavaAnalyzer.__init__
AnalyzerInit ==
    /\ class_map = EmptyDict
    /\ method_map = EmptyDict
    /\ call_graph = EmptyDict
    /\ index_calls = 0

SearchIdle ==
    /\ s_pc = "idle"
    /\ s_key = ""
    /\ s_depth = 0
    /\ visited = {}
    /\ related = EmptyDict
    /\ stack = <<>>
    /\ visits = <<>>
    /\ s_index = 0
    /\ prev_search = None

RankerIdle ==
    /\ file_commits = << >>
    /\ exception_handling = << >>
    /\ weighted = None

ToolIdle ==
    /\ pc = "idle"
    /\ payload = None
    /\ result = None
    /\ requests = 0
    /\ repo_path = None
    /\ java_files = <<>>
    /\ exception_handlers = <<>>
    /\ clones = 0
    /\ maps0 = EmptyMaps
    /\ failure = None
    /\ endpoint = ""
    /\ h_class = ""
    /\ h_exception = ""
    /\ h_result = None
    /\ i_files = << >>
    /\ i_maps = EmptyMaps
    /\ java_code = << >>
    /\ code_pieces = << >>
    /\ scan = None

\* A variant of ProcessJavaFiles that returns after the first file.
ProcessFirstFile(file_paths) ==
    LET m == process_java_files(Maps(class_map, method_map, call_graph),
                                SubSeq(file_paths, 1, 1))
    IN  /\ class_map' = m.class_map
        /\ method_map' = m.method_map
        /\ call_graph' = m.call_graph
        /\ index_calls' = index_calls + 1

\* process_java_files(file_paths) on the analyzer.
ProcessJavaFiles(file_paths) ==
    LET m == process_java_files(Maps(class_map, method_map, call_graph),
                                file_paths)
    IN  /\ class_map' = m.class_map
        /\ method_map' = m.method_map
        /\ call_graph' = m.call_graph
        /\ index_calls' = index_calls + 1

\* _weight_methods(methods, commits, exception_handling), methods being
\* the dictionary in related.
WeightMethods ==
    weighted' = [ items |-> weight_methods(call_graph, related, file_commits,
                                           exception_handling) ]

---------------------------------------------------------------------------
(* The parser alone: a text is given, parse_stacktrace is applied.         *)

ParserInit ==
    /\ trace_lines \in Traces
    /\ stacktrace = TextOf(trace_lines)
    /\ exception_info = None
    /\ AnalyzerInit
    /\ SearchIdle
    /\ RankerIdle
    /\ ToolIdle

ParseStacktrace ==
    /\ pc = "idle"
    /\ IsNone(exception_info)
    /\ exception_info' = parse_stacktrace(stacktrace)
    /\ UNCHANGED <<stacktrace, trace_lines>>
    /\ UNCHANGED <<avars, svars, rvars, tvars>>

ParserNext == ParseStacktrace

SpecParser == ParserInit /\ [][ParserNext]_vars

---------------------------------------------------------------------------
(* The explorer: an analyzer that indexes file lists and is searched.      *)

\* The roots searched from: the indexed methods and one that no file has.
Roots == { <<"R", "r">>, <<"A", "a">>, <<"B", "b">>, <<"C", "c">>,
           <<"com.A", "a">>, <<"Z", "z">> }

ExplorerInit ==
    /\ ParserIdle
    /\ AnalyzerInit
    /\ SearchIdle
    /\ RankerIdle
    /\ ToolIdle

ExplorerIndex ==
    /\ pc = "idle"
    /\ s_pc # "searching"
    /\ index_calls < MaxIndexCalls
    /\ \E fl \in FileLists : ProcessJavaFiles(fl)
    /\ UNCHANGED <<pvars, svars, rvars, tvars>>

ExplorerSearch ==
    /\ pc = "idle"
    /\ s_pc # "searching"
    /\ \E r \in Roots, d \in 0..MaxDepth : FindRelatedMethods(r[1], r[2], d)
    /\ UNCHANGED prev_search
    /\ UNCHANGED <<pvars, avars, rvars, tvars>>

ExplorerNext ==
    ExplorerIndex \/ ExplorerSearch \/ DfsCallee \/ DfsCaller \/ DfsReturn

SpecExplorer == ExplorerInit /\ [][ExplorerNext]_vars

\* The search that returned is made once more, from the same root with the
\* same depth; the ghost prev_search keeps what it had returned.
ExplorerSearchAgain ==
    /\ pc = "idle"
    /\ s_pc = "returned"
    /\ IsNone(prev_search)
    /\ \E r \in Roots :
          /\ MethodKey(r[1], r[2]) = s_key
          /\ FindRelatedMethods(r[1], r[2], s_depth)
    /\ prev_search' = [ key |-> s_key, depth |-> s_depth,
                        index_calls |-> s_index, related |-> related ]
    /\ UNCHANGED <<pvars, avars, rvars, tvars>>

ExplorerTwiceNext ==
    \/ ExplorerIndex
    \/ ExplorerSearch
    \/ ExplorerSearchAgain
    \/ DfsCallee
    \/ DfsCaller
    \/ DfsReturn

SpecExplorerTwice == ExplorerInit /\ [][ExplorerTwiceNext]_vars

\* A call of find_related_methods runs until it returns.
SpecExplorerFair ==
    SpecExplorer /\ WF_vars(DfsCallee \/ DfsCaller \/ DfsReturn)

---------------------------------------------------------------------------
(* The indexer and the handler search: an analyzer that indexes file       *)
(* lists and is asked for the handlers of an exception in a class.         *)

\* The class names asked for: indexed ones, an interface, one no file has.
\* The exception names asked for.
\* process_java_files(file_paths); the ghosts keep the call.
IndexerIndex ==
    /\ pc = "idle"
    /\ index_calls < MaxIndexCalls
    /\ \E fl \in FileLists \cup { << FileH >>, << FileA2 >> } :
          /\ ProcessJavaFiles(fl)
          /\ i_files' = fl
    /\ i_maps' = Maps(class_map, method_map, call_graph)
    /\ UNCHANGED <<pc, payload, result, requests, repo_path, java_files,
                   exception_handlers, clones, maps0, failure, endpoint>>
    /\ UNCHANGED <<h_class, h_exception, h_result, java_code, code_pieces, scan>>
    /\ UNCHANGED <<pvars, svars, rvars>>

\* find_exception_handlers(class_name, exception_type): it returns the
\* handlers or raises; parsed tells whether javalang.parse.parse was called.
IndexerFindHandlers ==
    /\ pc = "idle"
    /\ \E c \in { "R", "A", "B", "C", "com.A", "I", "Z", "H" },
          e \in { "NullPointerException", "IllegalStateException",
                  "IOException", "" } :
          /\ h_class' = c
          /\ h_exception' = e
          /\ h_result' =
                IF find_exception_handlers_raises(class_map, c)
                THEN [ raised |-> "KeyError", handlers |-> << >>,
                       parsed |-> FALSE ]
                ELSE [ raised |-> "",
                       handlers |-> find_exception_handlers(class_map, c, e),
                       parsed |-> /\ ClassKnown(class_map, c)
                                  /\ PreCheck(FileAt(class_map.val[c]), e) ]
    /\ UNCHANGED <<pc, payload, result, requests, repo_path, java_files,
                   exception_handlers, clones, maps0, failure, endpoint>>
    /\ UNCHANGED <<i_files, i_maps, java_code, code_pieces, scan>>
    /\ UNCHANGED <<pvars, avars, svars, rvars>>

IndexerNext == IndexerIndex \/ IndexerFindHandlers

SpecIndexer == ExplorerInit /\ [][IndexerNext]_vars

---------------------------------------------------------------------------
(* The ranker alone: _weight_methods applied to a mapping of methods,      *)
(* commit records and flags, on an analyzer that has indexed RankerFiles.  *)

RankerFiles == << FileR, FileA, FileB, FileC >>

RankerMaps == process_java_files(EmptyMaps, RankerFiles)

\* The keys the methods argument is drawn from.
RankerKeys == { "R.r", "A.a", "B.b" }

\* The sequences without repetition over the subsets of keys.
InjectiveSeqs(keys) ==
    UNION { { s \in [1..n -> keys] : \A i, j \in 1..n : s[i] = s[j] => i = j }
            : n \in 0..Cardinality(keys) }

Absent == [absent |-> TRUE]

\* What commits may hold for a file: no entry, the empty dictionary, one
\* without a date, text that is no date, a date with an offset one day
\* old, and dates without offset on both sides of the 30 and 90 days.
CommitChoices ==
    { Absent, NoCommit, CommitNoDate,
      Commit(Date("garbage", 0)),
      Commit(Date("aware", 24)),
      Commit(Date("naive", 30 * HoursPerDay + 23)),
      Commit(Date("naive", 31 * HoursPerDay)),
      Commit(Date("naive", 90 * HoursPerDay + 23)),
      Commit(Date("naive", 91 * HoursPerDay)) }

Flags(eh, nc) == [has_exception_handling |-> eh, has_null_check |-> nc]

\* What exception_handling may hold.
FlagChoices ==
    { << >>,
      ("R.r" :> Flags(TRUE, TRUE)) @@ ("A.a" :> Flags(FALSE, TRUE)),
      ("A.a" :> Flags(TRUE, FALSE)) @@ ("B.b" :> Flags(TRUE, FALSE)),
      ("R.r" :> Flags(FALSE, FALSE)) @@ ("A.a" :> Flags(FALSE, FALSE))
        @@ ("B.b" :> Flags(FALSE, FALSE)),
      ("U.u4" :> Flags(TRUE, FALSE)) @@ ("U.u5" :> Flags(FALSE, TRUE))
        @@ ("B.b" :> Flags(TRUE, TRUE)) }

\* Two more analyzers: one where B.b has five callers (U.u1 calls it
\* twice) and U.u5 one caller that calls it twice, one where B.b has four.
HubKeys == { "B.b", "U.u4", "U.u5" }

\* The analyzers the ranker is applied on, with the keys and the file
\* paths of the methods it is given.
RankerCases ==
    { [ maps |-> process_java_files(EmptyMaps, files), keys |-> keys ] :
        <<files, keys>> \in { <<RankerFiles, RankerKeys>>,
                              << << FileR, FileA, FileB, FileC, FileU >>, HubKeys >>,
                              << << FileR, FileB, FileC, FileU >>, HubKeys >> } }

PathsOf(maps, keys) == { maps.method_map.val[k].file_path : k \in keys }

RankerInit ==
    /\ ParserIdle
    /\ \E c \in RankerCases :
          /\ class_map = c.maps.class_map
          /\ method_map = c.maps.method_map
          /\ call_graph = c.maps.call_graph
          /\ \E keys \in InjectiveSeqs(c.keys) :
                related = [ keys |-> keys,
                            val  |-> [ k \in { keys[i] : i \in 1..Len(keys) } |->
                                         method_map.val[k] ] ]
          /\ \E ch \in [PathsOf(c.maps, c.keys) -> CommitChoices] :
                file_commits =
                    [ p \in { q \in DOMAIN ch : ch[q] # Absent } |-> ch[p] ]
    /\ index_calls = 1
    /\ s_pc = "idle"
    /\ s_key = ""
    /\ s_depth = 0
    /\ visited = {}
    /\ stack = <<>>
    /\ visits = <<>>
    /\ s_index = 0
    /\ prev_search = None
    /\ exception_handling \in FlagChoices
    /\ weighted = None
    /\ ToolIdle

RankerWeigh ==
    /\ pc = "idle"
    /\ IsNone(weighted)
    /\ WeightMethods
    /\ UNCHANGED <<file_commits, exception_handling>>
    /\ UNCHANGED <<pvars, avars, svars, tvars>>

RankerNext == RankerWeigh

SpecRanker == RankerInit /\ [][RankerNext]_vars

---------------------------------------------------------------------------
(* The text scans has_exception_handling and check_null_handling.  The     *)
(* code of a method is a token sequence: a token is a maximal run of word  *)
(* characters, a single space or line break, or one of the marks below.    *)

\* The pieces one method code is written from, at most.
MaxPieces == 2

\* Tokens of Java code matched by \w+ as a whole.
CodeWordToks ==
    { "void", "f", "try", "retry", "catch", "finally", "throws", "rethrows",
      "if", "while", "return", "null", "x", "y", "r", "e", "trim", "the",
      "error", "IOException", "Objects", "requireNonNull", "Optional", "of" }

\* re.search(pattern, java_code) is not None, for a pattern matched at
\* token i by MatchAt.  The patterns begin without a word boundary: their
\* first literal matches the end of any word that ends with it.
Search(t, MatchAt(_, _)) == \E i \in 1..Len(t) : MatchAt(t, i)

\* try\s*\{ and catch\s*\( , or throws\s+[\w\.,\s]+ : white space, then
\* one more character of the class, which may be white space too.
has_exception_handling(t) ==
    IF /\ Search(t, LAMBDA u, i :
                /\ u[i] \in {"try", "retry"}
                /\ Tok(u, RunEnd(u, i + 1, SpaceToks) + 1) = "{")
       /\ Search(t, LAMBDA u, i :
                /\ u[i] = "catch"
                /\ Tok(u, RunEnd(u, i + 1, SpaceToks) + 1) = "(")
    THEN TRUE
    ELSE IF Search(t, LAMBDA u, i :
                /\ u[i] \in {"throws", "rethrows"}
                /\ Tok(u, i + 1) \in SpaceToks
                /\ Tok(u, i + 2) \in CodeWordToks \cup {".", ","} \cup SpaceToks)
    THEN TRUE
    ELSE FALSE

\* if\s*\(\s* left \s* op \s* right \s*\) , where a side is the literal
\* null (the token null itself, as white space or a mark follows) or \w+ .
IfNullMatchAt(t, i, op, nullFirst) ==
    LET p == RunEnd(t, i + 1, SpaceToks) + 1          \* (
        a == RunEnd(t, p + 1, SpaceToks) + 1          \* left
        o == RunEnd(t, a + 1, SpaceToks) + 1          \* op
        b == RunEnd(t, o + 1, SpaceToks) + 1          \* right
        c == RunEnd(t, b + 1, SpaceToks) + 1          \* )
    IN  /\ t[i] = "if"
        /\ Tok(t, p) = "("
        /\ IF nullFirst THEN Tok(t, a) = "null" ELSE Tok(t, a) \in CodeWordToks
        /\ Tok(t, o) = op
        /\ IF nullFirst THEN Tok(t, b) \in CodeWordToks ELSE Tok(t, b) = "null"
        /\ Tok(t, c) = ")"

\* The six patterns, in their order: if (var == null), if (null == var),
\* if (var != null), if (null != var), Objects\.requireNonNull, Optional\.
check_null_handling(t) ==
    \/ Search(t, LAMBDA u, i : IfNullMatchAt(u, i, "==", FALSE))
    \/ Search(t, LAMBDA u, i : IfNullMatchAt(u, i, "==", TRUE))
    \/ Search(t, LAMBDA u, i : IfNullMatchAt(u, i, "!=", FALSE))
    \/ Search(t, LAMBDA u, i : IfNullMatchAt(u, i, "!=", TRUE))
    \/ Search(t, LAMBDA u, i :
            /\ u[i] = "Objects"
            /\ Tok(u, i + 1) = "."
            /\ Tok(u, i + 2) = "requireNonNull")
    \/ Search(t, LAMBDA u, i : u[i] = "Optional" /\ Tok(u, i + 1) = ".")

\* A piece of Java code, with what it is in Java: the opener of the block
\* of a try statement, the opener of a catch clause, a throws declaration,
\* a comparison with the null literal, a call of Objects.requireNonNull, a
\* reference to the Optional API.
Piece(toks, is) == [ toks |-> toks, is |-> is ]

Pieces ==
    { Piece(<<"void", SP, "f", "(", ")", SP, "{">>, {}),
      Piece(<<"void", SP, "f", "(", ")", SP, "throws", SP, "IOException", SP, "{">>,
            {"throws"}),
      Piece(<<"try", SP, "{">>, {"try"}),
      Piece(<<"try", "{">>, {"try"}),
      Piece(<<"try", SP, "(", "r", ")", SP, "{">>, {"try"}),
      Piece(<<"}", SP, "catch", SP, "(", "IOException", SP, "e", ")", SP, "{">>,
            {"catch"}),
      Piece(<<"}", "catch", "(", "IOException", SP, "e", ")", "{">>, {"catch"}),
      Piece(<<"}", SP, "finally", SP, "{">>, {}),
      Piece(<<"//", SP, "rethrows", SP, "the", SP, "error">>, {}),
      Piece(<<"retry", "(", ")", ";">>, {}),
      Piece(<<"return", SP, "x", ".", "trim", "(", ")", ";">>, {}),
      Piece(<<"if", SP, "(", "x", SP, "==", SP, "null", ")", SP, "{">>, {"null"}),
      Piece(<<"if", "(", "null", "==", "x", ")">>, {"null"}),
      Piece(<<"if", SP, "(", "x", SP, "!=", SP, "null", ")", SP, "{">>, {"null"}),
      Piece(<<"if", SP, "(", SP, "null", SP, "!=", SP, "x", SP, ")">>, {"null"}),
      Piece(<<"while", SP, "(", "x", SP, "!=", SP, "null", ")", SP, "{">>, {"null"}),
      Piece(<<"if", SP, "(", "x", SP, "!=", SP, "null", SP, "&&", SP, "y", ")", SP, "{">>,
            {"null"}),
      Piece(<<"return", SP, "x", SP, "==", SP, "null", SP, "?", SP, "y", SP, ":", SP,
              "x", ";">>, {"null"}),
      Piece(<<"Objects", ".", "requireNonNull", "(", "x", ")", ";">>, {"require"}),
      Piece(<<"return", SP, "Optional", ".", "of", "(", "x", ")", ";">>, {"optional"}),
      Piece(<<"}">>, {}) }

RECURSIVE CodeOf(_)
\* The code written from pieces, one on a line.
CodeOf(ps) ==
    IF ps = <<>> THEN <<>>
    ELSE Head(ps).toks \o (IF Len(ps) = 1 THEN <<>> ELSE <<NL>>) \o CodeOf(Tail(ps))

RECURSIVE PieceSeqs(_)
\* The sequences of at most n pieces.
PieceSeqs(n) ==
    IF n = 0 THEN { <<>> }
    ELSE PieceSeqs(n - 1) \cup
         { Append(ps, p) : ps \in { q \in PieceSeqs(n - 1) : Len(q) = n - 1 },
                           p \in Pieces }

\* What the pieces of the code are in Java.
Contains(ps, what) == \E i \in 1..Len(ps) : what \in ps[i].is

---------------------------------------------------------------------------
(* The scans alone: a method code is given, the scans are applied.         *)

ScansInit ==
    /\ ParserIdle
    /\ AnalyzerInit
    /\ SearchIdle
    /\ RankerIdle
    /\ pc = "idle" /\ payload = None /\ result = None /\ requests = 0
    /\ repo_path = None /\ java_files = <<>> /\ exception_handlers = <<>>
    /\ clones = 0 /\ maps0 = EmptyMaps /\ failure = None /\ endpoint = ""
    /\ h_class = "" /\ h_exception = "" /\ h_result = None
    /\ i_files = <<>> /\ i_maps = EmptyMaps
    /\ code_pieces \in PieceSeqs(MaxPieces)
    /\ java_code = CodeOf(code_pieces)
    /\ scan = None

HasExceptionHandling ==
    /\ scan' = [ called |-> "has_exception_handling",
                 value  |-> has_exception_handling(java_code) ]
    /\ UNCHANGED <<java_code, code_pieces>>
    /\ UNCHANGED <<pc, payload, result, requests, repo_path, java_files,
                   exception_handlers, clones, maps0, failure, endpoint>>
    /\ UNCHANGED <<h_class, h_exception, h_result, i_files, i_maps>>
    /\ UNCHANGED <<pvars, avars, svars, rvars>>

CheckNullHandling ==
    /\ scan' = [ called |-> "check_null_handling",
                 value  |-> check_null_handling(java_code) ]
    /\ UNCHANGED <<java_code, code_pieces>>
    /\ UNCHANGED <<pc, payload, result, requests, repo_path, java_files,
                   exception_handlers, clones, maps0, failure, endpoint>>
    /\ UNCHANGED <<h_class, h_exception, h_result, i_files, i_maps>>
    /\ UNCHANGED <<pvars, avars, svars, rvars>>

ScansNext == HasExceptionHandling \/ CheckNullHandling

SpecScans == ScansInit /\ [][ScansNext]_vars

---------------------------------------------------------------------------
(* JavaAnalysisTool.analyze_error: the requests one tool serves.           *)

\* The requests one tool is given.
MaxRequests == 2

NpeLine ==
    OtherLine(<<"java", ".", "lang", ".", "NullPointerException", ":", SP,
                "null">>)

\* The stack traces of the requests: one without a frame, one thrown in
\* R.r, one thrown in B.b that has no header, one thrown in Z.z.
ToolTraces ==
    { << NpeLine >>,
      << NpeLine,
         FrameLine(<<"R">>, "r", <<"R", ".", "java">>, "42"),
         FrameLine(<<"com", ".", "A">>, "a", <<"A", ".", "java">>, "7") >>,
      << FrameLine(<<"B">>, "b", <<"B", ".", "java">>, "7") >>,
      << NpeLine, FrameLine(<<"Z">>, "z", <<"Z", ".", "java">>, "7") >> }

\* The repositories a clone may bring: the files find_java_files lists and
\* the last commit of each tracked file (authored_datetime.isoformat()
\* carries the offset of the author's time zone).
Repos ==
    [ empty   |-> [ files |-> << >>, commits |-> << >> ],
      bad     |-> [ files |-> << FileBad, FileGone >>, commits |-> << >> ],
      diamond |-> [ files |-> << FileR, FileA, FileB, FileC >>,
                    commits |->
                        ("src/R.java" :> Commit(Date("aware", 24)))
                     @@ ("src/A.java" :> Commit(Date("aware", 100 * HoursPerDay)))
                     @@ ("src/C.java" :> Commit(Date("aware", 40 * HoursPerDay))) ],
      cycle   |-> [ files |-> << FileA, FileB2 >>,
                    commits |->
                        ("src/A.java" :> Commit(Date("aware", 24))) ] ]

\* What clone_repo may raise.
CloneErrors == { "repo clone failed: not found", "no space left on device" }

\* The payloads: with both keys and a text, with a stacktrace that is no
\* text, and without one of the keys.
Payload(keys, repo_url, is_text, lines) ==
    [ keys |-> keys, repo_url |-> repo_url, is_text |-> is_text,
      lines |-> lines ]

Payloads ==
    { Payload({"repo_url", "stacktrace"}, u, TRUE, t) :
        u \in DOMAIN Repos, t \in ToolTraces }
    \cup { Payload({"repo_url", "stacktrace"}, "diamond", FALSE, << >>),
           Payload({"repo_url"}, "diamond", TRUE, << >>),
           Payload({"stacktrace", "token"}, "", TRUE, << NpeLine >>) }

\* The dictionaries analyze_error returns: keys are the keys it has.
Result(status, message, keys, ei, root_cause, related_methods, handlers) ==
    [ status |-> status, message |-> message, keys |-> keys,
      exception_info |-> ei, root_cause |-> root_cause,
      related_methods |-> related_methods, exception_handlers |-> handlers ]

ErrorResult(message) ==
    Result("error", message, {"status", "message"}, None, None, << >>, << >>)

MissingParameters == ErrorResult("missing parameter: repo_url or stacktrace")

NoFramesMessage == "cannot parse the stack trace"

NoJavaFiles(ei) ==
    Result("warning", "no Java files in the repository",
           {"status", "message", "exception_info"}, ei, None, << >>, << >>)

\* A variant of CloneFailed that drops the cause.
CloneFailedNoCause(e) == ErrorResult("clone failed")

\* except Exception as e, around clone_repo.
CloneFailed(e) == ErrorResult("clone failed: " \o e)

\* except Exception as e, around the whole analysis.
HandleException(e) == ErrorResult("analysis failed: " \o e)

\* A variant of NoFrames that never holds.
NeverNoFrames(ei) == FALSE

\* not exception_info["frames"]
NoFrames(ei) == ei.frames = << >>

\* get_file_last_commit(repo_path, file_path): {} for a file the
\* repository has no commit of.
get_file_last_commit(name, file_path) ==
    IF file_path \in DOMAIN Repos[name].commits
    THEN Repos[name].commits[file_path]
    ELSE NoCommit

RECURSIVE MethodsNamed(_, _)
\* The methods with a body named method_name, in the order of the text.
MethodsNamed(types, method_name) ==
    IF types = <<>> THEN <<>>
    ELSE (IF Head(types).kind = "class"
          THEN SelectSeq(Head(types).methods,
                         LAMBDA m : m.name = method_name)
          ELSE <<>>)
         \o MethodsNamed(Tail(types), method_name)

\* exception_handling as step 8 fills it: the flags of the code of the
\* first method of the file that method_pattern matches.
ExceptionHandling(methods) ==
    [ key \in { k \in DOMAIN methods.val :
                  MethodsNamed(FileAt(methods.val[k].file_path).types,
                               methods.val[k].method_name) # <<>> } |->
        LET m == Head(MethodsNamed(FileAt(methods.val[key].file_path).types,
                                   methods.val[key].method_name))
        IN  Flags(m.eh, m.nc) ]

\* file_commits as step 8 fills it.
FileCommits(name, methods) ==
    [ p \in { methods.val[k].file_path : k \in DOMAIN methods.val } |->
        get_file_last_commit(name, p) ]

\* The flag of key in exception_handling, False without one.
FlagOf(flags, key, flag) ==
    IF key \in DOMAIN flags THEN flags[key][flag] ELSE FALSE

\* Step 10: the entries of related_methods, in the order of weighted.
RelatedMethods(items, commits, flags) ==
    [ i \in 1..Len(items) |->
        [ class      |-> items[i].info.class_name,
          method     |-> items[i].info.method_name,
          weight     |-> items[i].weight,
          file_path  |-> items[i].info.file_path,
          has_exception_handling
                     |-> FlagOf(flags, items[i].key, "has_exception_handling"),
          has_null_check
                     |-> FlagOf(flags, items[i].key, "has_null_check"),
          last_commit |-> IF items[i].info.file_path \in DOMAIN commits
                          THEN commits[items[i].info.file_path]
                          ELSE NoCommit ] ]

Success(ei, items, commits, flags, handlers) ==
    Result("success", "",
           {"status", "exception_info", "root_cause", "related_methods",
            "exception_handlers"},
           ei,
           [ class  |-> ei.frames[1].class_name,
             method |-> ei.frames[1].method_name,
             line   |-> ei.frames[1].line_number ],
           RelatedMethods(items, commits, flags), handlers)

\* The request ends: analyze_error returns res.
Return(res) ==
    /\ result' = res
    /\ pc' = "done"

\* A variant of LacksKey that looks for repo_url only.
LacksRepoUrl(p, required) == "repo_url" \notin p.keys

\* "k1" not in payload or "k2" not in payload
LacksKey(p, required) == ~(required \subseteq p.keys)

\* analyze_error(payload), up to the return it makes before the search or
\* to the first call of dfs: validation, parse_stacktrace, clone_repo (it
\* returns the clone or raises), find_java_files, process_java_files.
AnalyzeError ==
    /\ pc \in {"idle", "done"}
    /\ requests < MaxRequests
    /\ requests' = requests + 1
    /\ maps0' = Maps(class_map, method_map, call_graph)
    /\ exception_handlers' = << >>
    /\ file_commits' = << >>
    /\ exception_handling' = << >>
    /\ weighted' = None
    /\ endpoint' = "analyze_error"
    /\ UNCHANGED prev_search
    /\ UNCHANGED cvars
    /\ \E p \in Payloads :
        /\ payload' = p
        /\ IF LacksKey(p, {"repo_url", "stacktrace"})
           THEN /\ Return(MissingParameters)
                /\ failure' = None
                /\ clones' = 0
                /\ repo_path' = None
                /\ java_files' = << >>
                /\ UNCHANGED <<pvars, avars>>
                /\ UNCHANGED <<s_pc, s_key, s_depth, visited, related, stack,
                               visits, s_index>>
           ELSE IF ~p.is_text
           THEN \* re.split raises TypeError
                /\ Return(HandleException("expected string"))
                /\ failure' = [at |-> "parse", cause |-> "expected string"]
                /\ clones' = 0
                /\ repo_path' = None
                /\ java_files' = << >>
                /\ UNCHANGED <<pvars, avars>>
                /\ UNCHANGED <<s_pc, s_key, s_depth, visited, related, stack,
                               visits, s_index>>
           ELSE
                /\ trace_lines' = p.lines
                /\ stacktrace' = TextOf(p.lines)
                /\ exception_info' = parse_stacktrace(stacktrace')
                /\ IF NoFrames(exception_info')
                   THEN /\ Return(ErrorResult(NoFramesMessage))
                        /\ failure' = None
                        /\ clones' = 0
                        /\ repo_path' = None
                        /\ java_files' = << >>
                        /\ UNCHANGED avars
                        /\ UNCHANGED <<s_pc, s_key, s_depth, visited, related,
                                       stack, visits, s_index>>
                   ELSE IF exception_info'.frames = << >>
                   THEN \* exception_info["frames"][0] raises IndexError
                        /\ Return(HandleException("list index out of range"))
                        /\ failure' = [at |-> "root_frame",
                                       cause |-> "list index out of range"]
                        /\ clones' = 0
                        /\ repo_path' = None
                        /\ java_files' = << >>
                        /\ UNCHANGED avars
                        /\ UNCHANGED <<s_pc, s_key, s_depth, visited, related,
                                       stack, visits, s_index>>
                   ELSE
                        /\ clones' = 1
                        /\ \/ \E e \in CloneErrors :
                                /\ Return(CloneFailed(e))
                                /\ failure' = [at |-> "clone", cause |-> e]
                                /\ repo_path' = None
                                /\ java_files' = << >>
                                /\ UNCHANGED avars
                                /\ UNCHANGED <<s_pc, s_key, s_depth, visited,
                                               related, stack, visits, s_index>>
                           \/ /\ repo_path' = [name |-> p.repo_url]
                              /\ java_files' = Repos[p.repo_url].files
                              /\ failure' = None
                              /\ IF java_files' = << >>
                                 THEN /\ Return(NoJavaFiles(exception_info'))
                                      /\ UNCHANGED avars
                                      /\ UNCHANGED <<s_pc, s_key, s_depth,
                                                     visited, related, stack,
                                                     visits, s_index>>
                                 ELSE /\ ProcessJavaFiles(java_files')
                                      /\ pc' = "explore"
                                      /\ result' = None
                                      /\ s_pc' = "idle"
                                      /\ UNCHANGED <<s_key, s_depth, visited,
                                                     related, stack, visits,
                                                     s_index>>

\* Step 6: find_related_methods(root_class, root_method) on the maps that
\* process_java_files left.
AnalyzeErrorSearch ==
    /\ pc = "explore"
    /\ s_pc = "idle"
    /\ FindRelatedMethods(exception_info.frames[1].class_name,
                          exception_info.frames[1].method_name, DefaultDepth)
    /\ UNCHANGED prev_search
    /\ UNCHANGED <<pvars, avars, rvars, tvars>>

\* Steps 7 to 10, after find_related_methods has returned:
\* find_exception_handlers, the files and commits of the related methods
\* (read_file_content raises when a file can no longer be read),
\* _weight_methods and the result.
AnalyzeErrorFinish ==
    /\ pc = "explore"
    /\ s_pc = "returned"
    /\ exception_handlers' =
          find_exception_handlers(class_map,
              exception_info.frames[1].class_name,
              LastSegment(exception_info.exception_type))
    /\ \/ /\ related.keys # << >>
          /\ Return(HandleException("No such file or directory"))
          /\ failure' = [at |-> "read", cause |-> "No such file or directory"]
          /\ UNCHANGED rvars
       \/ /\ file_commits' = FileCommits(repo_path.name, related)
          /\ exception_handling' = ExceptionHandling(related)
          /\ weighted' = [ items |-> weight_methods(call_graph, related,
                                        file_commits', exception_handling') ]
          /\ Return(Success(exception_info, weighted'.items, file_commits',
                            exception_handling', exception_handlers'))
          /\ UNCHANGED failure
    /\ UNCHANGED <<payload, requests, repo_path, java_files, clones, maps0,
                   endpoint>>
    /\ UNCHANGED cvars
    /\ UNCHANGED <<pvars, avars, svars>>

RECURSIVE BuildMethods(_, _)
\* build_call_graph: for method_decl in type_decl.methods; the callees
\* with a qualifier in the order of the walk, repetitions kept.
BuildMethods(d, methods) ==
    IF methods = <<>> THEN d
    ELSE LET q == SelectSeq(Head(methods).calls, LAMBDA c : c.qualifier # "")
         IN  BuildMethods(
                 DictSet(d, Head(methods).name,
                         [ i \in 1..Len(q) |->
                             MethodKey(q[i].qualifier, q[i].member) ]),
                 Tail(methods))

RECURSIVE BuildTypes(_, _, _)
\* build_call_graph: for type_decl in tree.types
BuildTypes(d, file, types) ==
    IF types = <<>> THEN d
    ELSE LET td == Head(types)
             full_class_name ==
                 IF file.package # "" THEN file.package \o "." \o td.name
                 ELSE td.name
         IN  IF td.kind = "class"
             THEN BuildTypes(DictSet(d, full_class_name,
                                     BuildMethods(EmptyDict, td.methods)),
                             file, Tail(types))
             ELSE BuildTypes(d, file, Tail(types))

\* JavaAnalyzer.build_call_graph(java_code): a parse error is logged and
\* the empty graph returned.
build_call_graph(file) ==
    IF file.parses THEN BuildTypes(EmptyDict, file, file.types) ELSE EmptyDict

\* The payloads of build_call_graph: with both keys, without one of them,
\* and empty.
GraphPayloads ==
    { [ keys |-> {"repo_url", "class_name"}, repo_url |-> u, class_name |-> c ] :
        u \in DOMAIN Repos, c \in {"A", "Z"} }
    \cup { [ keys |-> {"repo_url", "token"}, repo_url |-> "diamond",
             class_name |-> "" ],
           [ keys |-> {"class_name"}, repo_url |-> "", class_name |-> "A" ],
           [ keys |-> {}, repo_url |-> "", class_name |-> "" ] }

\* The dictionary build_call_graph returns with a graph.
GraphResult(class_name, graph) ==
    [ status |-> "success", message |-> "",
      keys |-> {"status", "class_name", "call_graph"},
      class_name |-> class_name, call_graph |-> graph ]

MissingGraphParameters == ErrorResult("missing parameter: repo_url or class_name")

\* The path of the first class of class_map that is class_name or ends
\* with "." + class_name (of the class names of the files, com.A ends
\* with .A), or None.
ClassFile(cm, class_name) ==
    LET hits == SelectSeq(cm.keys,
                    LAMBDA key : \/ key = class_name
                                 \/ (key = "com.A" /\ class_name = "A"))
    IN  IF hits = << >> THEN None ELSE [ path |-> cm.val[Head(hits)] ]

\* build_call_graph(payload): validation, clone_repo (it returns the clone
\* or raises), find_java_files, process_java_files, the file of the
\* class (read_file_content raises when it can no longer be read) and its
\* graph.
BuildCallGraph ==
    /\ pc \in {"idle", "done"}
    /\ requests < MaxRequests
    /\ requests' = requests + 1
    /\ maps0' = Maps(class_map, method_map, call_graph)
    /\ endpoint' = "build_call_graph"
    /\ pc' = "done"
    /\ UNCHANGED exception_handlers
    /\ UNCHANGED cvars
    /\ UNCHANGED <<pvars, svars, rvars>>
    /\ \E p \in GraphPayloads :
        /\ payload' = p
        /\ IF LacksKey(p, {"repo_url", "class_name"})
           THEN /\ result' = MissingGraphParameters
                /\ failure' = None
                /\ clones' = 0
                /\ repo_path' = None
                /\ java_files' = << >>
                /\ UNCHANGED avars
           ELSE /\ clones' = 1
                /\ \/ \E e \in CloneErrors :
                        /\ result' = CloneFailed(e)
                        /\ failure' = [at |-> "clone", cause |-> e]
                        /\ repo_path' = None
                        /\ java_files' = << >>
                        /\ UNCHANGED avars
                   \/ /\ repo_path' = [name |-> p.repo_url]
                      /\ java_files' = Repos[p.repo_url].files
                      /\ IF java_files' = << >>
                         THEN /\ result' =
                                    Result("warning",
                                           "no Java files in the repository",
                                           {"status", "message"},
                                           None, None, << >>, << >>)
                              /\ failure' = None
                              /\ UNCHANGED avars
                         ELSE /\ ProcessJavaFiles(java_files')
                              /\ LET class_file == ClassFile(class_map', p.class_name)
                                 IN  IF IsNone(class_file)
                                     THEN /\ result' = GraphResult(p.class_name, EmptyDict)
                                          /\ failure' = None
                                     ELSE \/ /\ result' = ErrorResult(
                                                    "call graph failed: "
                                                    \o "No such file or directory")
                                             /\ failure' =
                                                  [at |-> "read",
                                                   cause |-> "No such file or directory"]
                                          \/ /\ result' = GraphResult(p.class_name,
                                                    build_call_graph(FileAt(class_file.path)))
                                             /\ failure' = None

\* JavaAnalysisTool.__init__: one GitScanner and one JavaAnalyzer, made
\* once.
Init ==
    /\ ParserIdle
    /\ AnalyzerInit
    /\ SearchIdle
    /\ RankerIdle
    /\ ToolIdle

Next ==
    \/ AnalyzeError
    \/ BuildCallGraph
    \/ AnalyzeErrorSearch
    \/ DfsCallee
    \/ DfsCaller
    \/ DfsReturn
    \/ AnalyzeErrorFinish

Spec == Init /\ [][Next]_vars

---------------------------------------------------------------------------
(* C1: parse_stacktrace returns one frame per well-formed frame line, in   *)
(* the order of the text, each with the class, method, file and integer    *)
(* line written on its line; every other line of the text (a frame line    *)
(* without the file:line suffix, a header, a "... n more" line) adds no    *)
(* frame and the parse still returns.                                      *)
C1_FramesAreTheWellFormedLines ==
    ~IsNone(exception_info) =>
        /\ Len(exception_info.frames) = Len(FramesWritten(trace_lines))
        /\ \A i \in 1..Len(exception_info.frames) :
              exception_info.frames[i] = FramesWritten(trace_lines)[i]

\* A parsed text of three lines: a frame line, a line without the suffix,
\* and a different frame line; two frames, the first line's first.
C1_Witness ==
    /\ ~IsNone(exception_info)
    /\ Len(trace_lines) = 3
    /\ ~IsNone(trace_lines[1].frame)
    /\ IsNone(trace_lines[2].frame)
    /\ ~IsNone(trace_lines[3].frame)
    /\ trace_lines[1].frame # trace_lines[3].frame
    /\ Len(exception_info.frames) = 2
    /\ exception_info.frames[1] = trace_lines[1].frame
    /\ exception_info.frames[1].line_number \in {7, 42}


---------------------------------------------------------------------------
(* C2: the output of _weight_methods holds the methods given, ordered by   *)
(* non-increasing weight, and two methods of equal weight stand in the     *)
(* order they had in the mapping given.                                    *)

\* The position of key k in the mapping given to the ranker.
PosInRelated(k) == CHOOSE i \in 1..Len(related.keys) : related.keys[i] = k

C2_DescendingAndStable ==
    ~IsNone(weighted) =>
        LET w == weighted.items
        IN  /\ Len(w) = Len(related.keys)
            /\ { w[i].key : i \in 1..Len(w) }
                 = { related.keys[i] : i \in 1..Len(related.keys) }
            /\ \A i, j \in 1..Len(w) :
                  i < j =>
                    /\ w[i].weight >= w[j].weight
                    /\ w[i].weight = w[j].weight
                         => PosInRelated(w[i].key) < PosInRelated(w[j].key)

\* Three methods were ranked: the one given last came first, the other two
\* weigh the same and kept their order.
C2_Witness ==
    /\ ~IsNone(weighted)
    /\ Len(weighted.items) = 3
    /\ weighted.items[1].key = related.keys[3]
    /\ weighted.items[1].weight > weighted.items[2].weight
    /\ weighted.items[2].weight = weighted.items[3].weight
    /\ weighted.items[2].key = related.keys[1]
    /\ weighted.items[3].key = related.keys[2]

---------------------------------------------------------------------------
(* C3: find_related_methods with depth = 0 performs no expansion: the      *)
(* mapping it builds is empty or holds exactly the root key, the latter    *)
(* exactly when the root is in method_map, whatever callers and callees    *)
(* the root has; only the root is ever visited.                            *)

C3_DepthZeroNoExpansion ==
    (s_pc # "idle" /\ s_depth = 0) =>
        /\ visited = {s_key}
        /\ related.keys \in { <<>>, <<s_key>> }
        /\ related.keys = <<s_key>> => Has(method_map, s_key)
        /\ (s_pc = "searching" /\ Has(method_map, s_key))
              => related.keys = <<s_key>>

\* A search of depth 0 has returned the root alone, the root having both
\* callees and a caller in the call graph.
C3_Witness ==
    /\ s_pc = "returned"
    /\ s_depth = 0
    /\ s_key = "R.r"
    /\ related.keys = << "R.r" >>
    /\ Has(call_graph, "R.r")
    /\ call_graph.val["R.r"] # {}
    /\ \E i \in 1..Len(call_graph.keys) :
          "R.r" \in call_graph.val[call_graph.keys[i]]

---------------------------------------------------------------------------
(* C4: on every call graph, cyclic ones included, find_related_methods     *)
(* returns for every root and every depth, and no key is visited (added    *)
(* to visited and expanded) more than once during one search.              *)

C4_TerminatesVisitingOnce ==
    /\ [](\A k \in DOMAIN visits : visits[k] <= 1)
    /\ ((s_pc = "searching") ~> (s_pc = "returned"))

\* A search has returned on a graph where A.a and B.b call each other,
\* both visited once.
C4_Witness ==
    /\ s_pc = "returned"
    /\ s_depth = MaxDepth
    /\ Has(call_graph, "A.a") /\ "B.b" \in call_graph.val["A.a"]
    /\ Has(call_graph, "B.b") /\ "A.a" \in call_graph.val["B.b"]
    /\ {"A.a", "B.b"} \subseteq DOMAIN visits
    /\ visits["A.a"] = 1
    /\ visits["B.b"] = 1

---------------------------------------------------------------------------
(* C5: no indexer state persists across requests: the class_map,           *)
(* method_map and call_graph a request works with, once it has indexed     *)
(* its file list, are exactly those that indexing that list alone gives.   *)

C5_MapsAreOfThisRequestAlone ==
    java_files # << >> =>
        Maps(class_map, method_map, call_graph)
          = process_java_files(EmptyMaps, java_files)

---------------------------------------------------------------------------
(* C6: when the stack-trace text yields zero frames, analyze_error ends    *)
(* the request early with status "error" and a result without root_cause,  *)
(* without a call of clone_repo and with the indexer maps as they were.    *)

\* The payload has both keys and a text for a stacktrace.
PayloadWellFormed ==
    /\ {"repo_url", "stacktrace"} \subseteq payload.keys
    /\ payload.is_text

C6_ZeroFramesEndsEarly ==
    ( /\ pc = "done"
      /\ PayloadWellFormed
      /\ parse_stacktrace(TextOf(payload.lines)).frames = << >> )
        => /\ result = ErrorResult(NoFramesMessage)
           /\ result.status = "error"
           /\ "root_cause" \notin result.keys
           /\ clones = 0
           /\ IsNone(repo_path)
           /\ Maps(class_map, method_map, call_graph) = maps0

\* The second request of a tool that has indexed files carried a trace
\* without a frame and was answered with the error.
C6_Witness ==
    /\ pc = "done"
    /\ requests = 2
    /\ PayloadWellFormed
    /\ payload.lines = << NpeLine >>
    /\ exception_info.frames = << >>
    /\ result.status = "error"
    /\ method_map # EmptyDict
    /\ clones = 0

---------------------------------------------------------------------------
(* C7: when a trace with a frame is analysed and the clone has no Java     *)
(* file, or none of its files can be parsed, analyze_error returns status  *)
(* "warning" with exception_info and without related methods.              *)

C7_NoUsableFileWarns ==
    ( /\ pc = "done"
      /\ PayloadWellFormed
      /\ exception_info.frames # << >>
      /\ ~IsNone(repo_path)
      /\ IsNone(failure)
      /\ \A i \in 1..Len(java_files) :
            ~(java_files[i].readable /\ java_files[i].parses) )
        => /\ result.status = "warning"
           /\ "exception_info" \in result.keys
           /\ result.related_methods = << >>

---------------------------------------------------------------------------
(* C8: every call of analyze_error returns a result whose status is        *)
(* "success", "warning" or "error"; whatever is raised during the request  *)
(* ends in status "error", and what clone_repo raises is told in the       *)
(* message.                                                                *)

C8_EveryRequestReturnsAStatus ==
    pc = "done" =>
        /\ "status" \in result.keys
        /\ result.status \in {"success", "warning", "error"}
        /\ ~IsNone(failure) => result.status = "error"
        /\ (~IsNone(failure) /\ failure.at = "clone")
             => result.message = "clone failed: " \o failure.cause

\* clone_repo has raised and the request was answered with the error.
C8_Witness ==
    /\ pc = "done"
    /\ ~IsNone(failure)
    /\ failure.at = "clone"
    /\ failure.cause \in CloneErrors
    /\ clones = 1
    /\ result.status = "error"

---------------------------------------------------------------------------
(* C9: exploring is deterministic: two searches over the same maps (no    *)
(* indexing between their beginnings), from the same root with the same    *)
(* depth, build the same mapping of related methods in the same order,     *)
(* whatever the order in which the callee sets of the call graph are       *)
(* iterated.                                                               *)

C9_SameInputsSameRelated ==
    ( /\ s_pc = "returned"
      /\ ~IsNone(prev_search)
      /\ prev_search.key = s_key
      /\ prev_search.depth = s_depth
      /\ prev_search.index_calls = s_index )
        => prev_search.related = related

---------------------------------------------------------------------------
(* C10: the weight a method gets for recency depends on the commit record  *)
(* of its file only: 0 when commits has no entry for the file, 3 when the  *)
(* commit date is at most 30 days old, 2 when it is at most 90 days old,   *)
(* 1 when it is older or the date cannot be parsed.                        *)

\* The recency weight stated, for the records that it speaks of; ages are
\* counted in whole days as timedelta.days counts them.
StatedRecency(commit) ==
    IF commit.date.iso = "garbage" THEN 1
    ELSE LET days == (NowHours - commit.date.t) \div HoursPerDay
         IN  IF days <= 30 THEN 3 ELSE IF days <= 90 THEN 2 ELSE 1

C10_RecencyByCommitAge ==
    ~IsNone(weighted) =>
        \A i \in 1..Len(weighted.items) :
            LET item == weighted.items[i]
                path == item.info.file_path
                recency == item.weight
                             - HandlingWeight(exception_handling, item.key)
                             - FanInWeight(ReferenceCount(call_graph), item.key)
            IN  /\ path \notin DOMAIN file_commits => recency = 0
                /\ (path \in DOMAIN file_commits
                      /\ "date" \in file_commits[path].keys)
                     => recency = StatedRecency(file_commits[path])

---------------------------------------------------------------------------
(* C11: the handling part of a method's weight is +3 when the method is    *)
(* flagged as having exception handling and +2 when it is flagged as       *)
(* having a null check, each given without regard to the other (nothing    *)
(* without flags for the key); hence it is one of 0, 2, 3 or 5, and        *)
(* weight = recency + handling + fan-in.                                   *)

\* What is left of the weight of an item without recency and fan-in.
HandlingPart(item) ==
    item.weight
      - RecencyWeight(file_commits, item.info.file_path)
      - FanInWeight(ReferenceCount(call_graph), item.key)

C11_HandlingAddsBothFlags ==
    ~IsNone(weighted) =>
        \A i \in 1..Len(weighted.items) :
            LET item == weighted.items[i]
                eh == FlagOf(exception_handling, item.key,
                             "has_exception_handling")
                nc == FlagOf(exception_handling, item.key, "has_null_check")
            IN  /\ HandlingPart(item) \in {0, 2, 3, 5}
                /\ HandlingPart(item) >= 3 <=> eh
                /\ HandlingPart(item) \in {2, 5} <=> nc

\* A ranked method flagged with a null check and without exception
\* handling: its handling part is 2.
C11_Witness ==
    /\ ~IsNone(weighted)
    /\ \E i \in 1..Len(weighted.items) :
          /\ weighted.items[i].key \in DOMAIN exception_handling
          /\ exception_handling[weighted.items[i].key].has_null_check
          /\ ~exception_handling[weighted.items[i].key].has_exception_handling
          /\ HandlingPart(weighted.items[i]) = 2

\* The claim as stated: the null-check bonus comes only on top of
\* exception handling, so the handling part is 0, 3 or 5.
C11_HandlingZeroThreeOrFive ==
    ~IsNone(weighted) =>
        \A i \in 1..Len(weighted.items) :
            HandlingPart(weighted.items[i]) \in {0, 3, 5}

---------------------------------------------------------------------------
(* C12: the fan-in part of a method's weight is a step function of the     *)
(* number of distinct caller keys whose call_graph entry holds the         *)
(* method's key: 3 for five or more, 2 for two or more, 1 for one, 0 for   *)
(* none; a caller that invokes the method several times counts once.       *)

\* The keys of call_graph whose set holds key.
CallersOf(key) ==
    { call_graph.keys[i] : i \in { j \in 1..Len(call_graph.keys) :
                                     key \in call_graph.val[call_graph.keys[j]] } }

\* What is left of the weight of an item without recency and handling.
FanInPart(item) ==
    item.weight
      - RecencyWeight(file_commits, item.info.file_path)
      - HandlingWeight(exception_handling, item.key)

C12_FanInStepsByCallers ==
    ~IsNone(weighted) =>
        \A i \in 1..Len(weighted.items) :
            LET n == Cardinality(CallersOf(weighted.items[i].key))
            IN  FanInPart(weighted.items[i])
                  = IF n >= 5 THEN 3 ELSE IF n >= 2 THEN 2
                    ELSE IF n = 1 THEN 1 ELSE 0

\* Ranked together: B.b with five callers (fan-in 3), U.u5 whose one
\* caller invokes it twice (fan-in 1) and U.u4 that nobody calls (0).
C12_Witness ==
    /\ ~IsNone(weighted)
    /\ Len(weighted.items) = 3
    /\ Cardinality(CallersOf("B.b")) = 5
    /\ CallersOf("U.u5") = {"U.u4"}
    /\ CallersOf("U.u4") = {}
    /\ \E i, j, k \in 1..3 :
          /\ weighted.items[i].key = "B.b" /\ FanInPart(weighted.items[i]) = 3
          /\ weighted.items[j].key = "U.u5" /\ FanInPart(weighted.items[j]) = 1
          /\ weighted.items[k].key = "U.u4" /\ FanInPart(weighted.items[k]) = 0

---------------------------------------------------------------------------
(* C13: find_exception_handlers called with a class name that class_map    *)
(* does not have returns an empty list and does not raise, whatever the    *)
(* exception name and the maps; class_map, method_map and call_graph       *)
(* change in no step but those of process_java_files.                      *)

C13_AbsentClassNoHandlers ==
    /\ []( (~IsNone(h_result) /\ ~Has(class_map, h_class))
             => /\ h_result.raised = ""
                /\ h_result.handlers = << >> )
    /\ [][ index_calls' = index_calls
             => /\ class_map' = class_map
                /\ method_map' = method_map
                /\ call_graph' = call_graph ]_vars

\* An analyzer that has indexed class C was asked for the handlers of
\* NullPointerException in the interface I, which class_map does not have.
C13_Witness ==
    /\ Has(class_map, "C")
    /\ ~Has(class_map, "I")
    /\ h_class = "I"
    /\ h_exception = "NullPointerException"
    /\ ~IsNone(h_result)
    /\ h_result.raised = ""
    /\ h_result.handlers = << >>

---------------------------------------------------------------------------
(* C14: find_related_methods whose root key method_map does not have       *)
(* returns an empty mapping, whatever the call graph and the depth.        *)

C14_MissingRootEmptyResult ==
    (s_pc = "returned" /\ ~Has(method_map, s_key)) => related.keys = << >>

---------------------------------------------------------------------------
(* C18: a file whose syntax tree cannot be built is skipped without        *)
(* aborting: process_java_files leaves the maps as they were before that   *)
(* file, and the maps it ends with are those of the list without the       *)
(* failing files.                                                          *)

\* The files of a list but those javalang cannot parse.
WithoutUnparseable(files) ==
    SelectSeq(files, LAMBDA f : ~f.readable \/ f.parses)

C18_UnparseableFileSkipped ==
    index_calls > 0 =>
        /\ Maps(class_map, method_map, call_graph)
             = process_java_files(i_maps, WithoutUnparseable(i_files))
        /\ \A k \in 1..Len(i_files) :
              (i_files[k].readable /\ ~i_files[k].parses)
                => process_java_files(i_maps, SubSeq(i_files, 1, k))
                     = process_java_files(i_maps, SubSeq(i_files, 1, k - 1))

\* A list with an unparseable file between two others was indexed: the
\* classes of both others are in class_map.
C18_Witness ==
    /\ index_calls > 0
    /\ i_files = << FileC, FileBad, FileComA >>
    /\ Has(class_map, "C")
    /\ Has(class_map, "com.A")
    /\ Has(method_map, "com.A.a")

---------------------------------------------------------------------------
(* C19: every method find_related_methods(root, depth) returns is a key    *)
(* of method_map joined to the root by a path of at most depth edges of    *)
(* the call graph, an edge taken from caller to callee or from callee to   *)
(* caller at the cost of one step either way.                              *)

\* The keys one edge away from key: its callees and its callers.
NeighboursOf(key) ==
    (IF Has(call_graph, key) THEN call_graph.val[key] ELSE {})
    \cup { call_graph.keys[i] : i \in { j \in 1..Len(call_graph.keys) :
                                    key \in call_graph.val[call_graph.keys[j]] } }

RECURSIVE WithinSteps(_, _)
\* The keys at most n edges away from a key of keys.
WithinSteps(keys, n) ==
    IF n = 0 THEN keys
    ELSE WithinSteps(keys \cup UNION { NeighboursOf(k) : k \in keys }, n - 1)

C19_RelatedWithinDepth ==
    (s_pc # "idle" /\ s_index = index_calls) =>
        \A i \in 1..Len(related.keys) :
            /\ Has(method_map, related.keys[i])
            /\ related.keys[i] \in WithinSteps({s_key}, s_depth)

\* A search of depth 1 from A.a has returned A.a, its callee B.b and its
\* caller R.r, and not C.c, which is two edges away.
C19_Witness ==
    /\ s_pc = "returned"
    /\ s_index = index_calls
    /\ s_key = "A.a"
    /\ s_depth = 1
    /\ { related.keys[i] : i \in 1..Len(related.keys) } = {"A.a", "B.b", "R.r"}
    /\ Has(method_map, "C.c")
    /\ "C.c" \in WithinSteps({"A.a"}, 2)

---------------------------------------------------------------------------
(* C15: has_exception_handling returns true exactly when the method code   *)
(* holds the opener of a try block and the opener of a catch clause, or a  *)
(* throws declaration; it returns false for a code with neither.           *)

C15_ExceptionHandlingExact ==
    (~IsNone(scan) /\ scan.called = "has_exception_handling") =>
        scan.value = ( \/ Contains(code_pieces, "try") /\ Contains(code_pieces, "catch")
                       \/ Contains(code_pieces, "throws") )

---------------------------------------------------------------------------
(* C16: check_null_handling returns true for every method code that holds  *)
(* a comparison x == null, null == x, x != null or null != x, wherever in  *)
(* the code it stands, a call of Objects.requireNonNull or a reference to  *)
(* Optional, and false for a code that holds none of them.                 *)

C16_NullCheckAnywhere ==
    (~IsNone(scan) /\ scan.called = "check_null_handling") =>
        scan.value = ( \/ Contains(code_pieces, "null")
                       \/ Contains(code_pieces, "require")
                       \/ Contains(code_pieces, "optional") )

---------------------------------------------------------------------------
(* C17: each endpoint rejects an incomplete payload before doing any       *)
(* work: analyze_error answers status "error" when the payload lacks       *)
(* repo_url or stacktrace, build_call_graph when it lacks repo_url or      *)
(* class_name; in the step that takes such a request no trace is parsed,   *)
(* clone_repo is not called and the indexer maps are left as they are.     *)

\* The step takes a request whose payload lacks a key its endpoint needs.
IncompleteRequest ==
    /\ requests' = requests + 1
    /\ \/ /\ endpoint' = "analyze_error"
          /\ ("repo_url" \notin payload'.keys \/ "stacktrace" \notin payload'.keys)
       \/ /\ endpoint' = "build_call_graph"
          /\ ("repo_url" \notin payload'.keys \/ "class_name" \notin payload'.keys)

C17_IncompletePayloadRejected ==
    [][ IncompleteRequest =>
          /\ pc' = "done"
          /\ result'.status = "error"
          /\ result'.keys = {"status", "message"}
          /\ UNCHANGED <<stacktrace, trace_lines, exception_info>>
          /\ clones' = 0
          /\ IsNone(repo_path')
          /\ UNCHANGED <<class_map, method_map, call_graph, index_calls>> ]_vars

\* The second request of a tool that has indexed files was a
\* build_call_graph without repo_url, answered with the error.
C17_Witness ==
    /\ pc = "done"
    /\ requests = 2
    /\ endpoint = "build_call_graph"
    /\ payload.keys = {"class_name"}
    /\ result = MissingGraphParameters
    /\ method_map # EmptyDict
    /\ Maps(class_map, method_map, call_graph) = maps0
    /\ clones = 0

---------------------------------------------------------------------------
(* C20: within one analyze_error request that ends in status "success"    *)
(* the steps come in the order parse, index, explore from frames[0],       *)
(* locate handlers, rank, assemble: while the request explores, the trace  *)
(* is parsed, all its files are indexed and nothing is indexed any more,   *)
(* the search is from the first frame, and no handler is located, nothing  *)
(* ranked and no result made; the result is made of a search that has      *)
(* returned, of the handlers found on the maps it ran on and of the        *)
(* ranking of the methods it returned.                                     *)

\* The key of the throw-site method of the request.
RootKey ==
    MethodKey(exception_info.frames[1].class_name,
              exception_info.frames[1].method_name)

\* The trace of the request is parsed and all its files are indexed.
ParsedAndIndexed ==
    /\ exception_info = parse_stacktrace(TextOf(payload.lines))
    /\ exception_info.frames # << >>
    /\ java_files = Repos[payload.repo_url].files
    /\ Maps(class_map, method_map, call_graph)
         = process_java_files(maps0, java_files)

C20_StepsInOrder ==
    endpoint = "analyze_error" =>
        /\ pc = "explore" =>
              /\ ParsedAndIndexed
              /\ s_pc # "idle" =>
                    (s_key = RootKey /\ s_depth = DefaultDepth
                       /\ s_index = index_calls)
              /\ exception_handlers = << >>
              /\ IsNone(weighted)
              /\ IsNone(result)
        /\ (pc = "done" /\ result.status = "success") =>
              /\ ParsedAndIndexed
              /\ s_pc = "returned"
              /\ s_key = RootKey
              /\ s_index = index_calls
              /\ exception_handlers =
                    find_exception_handlers(class_map,
                        exception_info.frames[1].class_name,
                        LastSegment(exception_info.exception_type))
              /\ weighted = [ items |-> weight_methods(call_graph, related,
                                            file_commits, exception_handling) ]
              /\ result = Success(exception_info, weighted.items, file_commits,
                                  exception_handling, exception_handlers)

\* A request with a trace of two frames has ended in success with several
\* related methods, ranked, and a handler.
C20_Witness ==
    /\ endpoint = "analyze_error"
    /\ pc = "done"
    /\ result.status = "success"
    /\ Len(exception_info.frames) = 2
    /\ Len(java_files) > 1
    /\ Len(result.related_methods) > 1
    /\ result.exception_handlers # << >>
    /\ result.root_cause.class = "R"

---------------------------------------------------------------------------
(* C21: find_exception_handlers on a class of class_map returns the empty  *)
(* list, without parsing the file again, when the text of the class's      *)
(* file has no catch clause whose type is the exception name given; when   *)
(* it has one, it returns, in the order of declaration, exactly the        *)
(* methods of the class of that name whose str(body) holds the exception   *)
(* name and the word catch, each with the class name asked for and the     *)
(* file path of class_map.                                                 *)

\* The text of the file has a catch clause for exception e.
TextHasCatch(file, e) ==
    \E i \in 1..Len(file.types) : \E j \in 1..Len(file.types[i].methods) :
        e \in file.types[i].methods[j].catches

\* The descriptors of the methods of the class whose stringified body
\* holds e and catch, in the order of declaration.
StatedHandlers(file, class_name, e) ==
    LET cls == SelectSeq(file.types,
                   LAMBDA t : t.kind = "class" /\ t.name = LastSegment(class_name))
        ms  == IF cls = << >> THEN << >>
               ELSE SelectSeq(cls[1].methods,
                        LAMBDA m : e \in m.body_names /\ m.body_catch)
    IN  [ i \in 1..Len(ms) |->
            [ class_name |-> class_name, method_name |-> ms[i].name,
              file_path |-> file.path ] ]

---------------------------------------------------------------------------
(* C22: find_related_methods is complete for its depth: the mapping it     *)
(* returns holds every key of method_map that a path of at most depth      *)
(* edges, taken forward or backward, joins to the root, in whatever order  *)
(* the callees and callers are iterated.                                   *)

C22_RelatedComplete ==
    (s_pc = "returned" /\ s_index = index_calls) =>
        \A k \in WithinSteps({s_key}, s_depth) :
            Has(method_map, k) => Has(related, k)

---------------------------------------------------------------------------
(* C23: after any sequence of process_java_files calls, also with file     *)
(* lists in which several files declare the same qualified class name,     *)
(* the maps are consistent: method_map and call_graph have the same keys,  *)
(* the class_name of every method_map entry is a key of class_map, and     *)
(* the file_path of every entry is the path class_map has for its class    *)
(* (the file processed last among those that declare the class).           *)

C23_MapsConsistent ==
    /\ DOMAIN method_map.val = DOMAIN call_graph.val
    /\ \A k \in DOMAIN method_map.val :
          /\ Has(class_map, method_map.val[k].class_name)
          /\ method_map.val[k].file_path
               = class_map.val[method_map.val[k].class_name]

===========================================================================
